---- MODULE Spec2Model ----
(***************************************************************************)
(* Model of the two Flask services of the repository, opsight.py and       *)
(* logs_querier.py: the request handlers (/health, /logs/search,           *)
(* /logs/search/timerange, /logs/submit), the DatadogLogsClient they share *)
(* with the periodic logger, and the periodic logger thread itself.        *)
(*                                                                         *)
(* Time is counted in minutes.  A JSON value is a record tagged by k.      *)
(* A string that holds a timestamp is a record [k |-> "iso", t, z] where z *)
(* is its zone designator ("" when it has none).  A string the handlers    *)
(* build is a sequence of its pieces.                                      *)
(***************************************************************************)
EXTENDS Integers, Sequences, FiniteSets, TLC

VARIABLES
    variant,    \* which service file is deployed: "opsight" or "logs_querier"
    hbEnabled,  \* ENABLE_PERIODIC_LOGGING
    ddAppKey,   \* DD_APP_KEY of the environment (None when unset)
    client,     \* dd_client, the DatadogLogsClient shared by handlers and logger
    launch,     \* how the file is run: "main" (python <file>) or "wsgi" (imported)
    rpc,        \* request handler position: "idle", "calling", "done"
    rep,        \* endpoint of the request being handled
    rbody,      \* request.get_json() of the request being handled
    rnow,       \* the datetime.utcnow() reading the handler took (0 if it took none)
    rplan,      \* what the handler computed before the backend call
    rcalls,     \* requests.post calls issued while handling this request
    rout,       \* what the backend did with the handler's call
    rresp,      \* the response returned by the handler
    rhbFails,   \* failed periodic submissions when the /health request arrived
    hpc,        \* startup ("boot", "run"), then the periodic logger's position
    hticks,     \* completed iterations of the periodic logger loop
    hsubmits,   \* dd_client.submit_log calls made by the periodic logger
    hfails,     \* periodic submissions that raised
    hlocal,     \* local "Periodic status check" log writes
    hcall,      \* the requests.post of the periodic submission in flight
    hthreads    \* periodic_logger threads started and alive, over all processes

vars == <<variant, hbEnabled, ddAppKey, client, launch, rpc, rep, rbody, rnow, rplan,
          rcalls, rout, rresp, rhbFails, hpc, hticks, hsubmits, hfails, hlocal, hcall,
          hthreads>>

rvars == <<rpc, rep, rbody, rnow, rplan, rcalls, rout, rresp, rhbFails>>
hvars == <<hpc, hticks, hsubmits, hfails, hlocal, hcall, hthreads>>
cvars == <<variant, hbEnabled, ddAppKey, launch>>

----------------------------------------------------------------------------
(* Bounds *)

MaxTicks == 2        \* iterations of the periodic logger explored
MaxBatch == 2        \* longest "logs" list explored
BaseNow == 20000     \* earliest utcnow() reading, in minutes

Nows == {BaseNow, BaseNow + 7}

----------------------------------------------------------------------------
(* JSON values *)

Absent == [k |-> "absent"]          \* the key is not in the object
Null == [k |-> "null"]              \* JSON null / Python None
S(x) == [k |-> "str", s |-> x]      \* a string
N(x) == [k |-> "int", n |-> x]      \* an integer
NonEmptyList == [k |-> "list"]      \* a non-empty JSON array
Iso(t, z) == [k |-> "iso", t |-> t, z |-> z]  \* a string holding a timestamp

\* Python truthiness of data.get(key) (None when the key is absent).
Truthy(v) ==
    CASE v.k = "absent" -> FALSE
      [] v.k = "null" -> FALSE
      [] v.k = "str" -> v.s # ""
      [] v.k = "int" -> v.n # 0
      [] OTHER -> TRUE

\* Python hashability: a list cannot be looked up in a dict.
Hashable(v) == v.k # "list"

\* data.get(key, default)
GetOr(data, key, default) ==
    IF data.f[key].k = "absent" THEN default ELSE data.f[key]

\* data.get(key)
Get(data, key) == GetOr(data, key, Null)

\* key in data
Has(data, key) == data.f[key].k # "absent"

Keys == {"service", "timerange", "limit", "query", "start_time", "end_time", "logs"}

EmptyFields ==
    [service |-> Absent, timerange |-> Absent, limit |-> Absent, query |-> Absent,
     start_time |-> Absent, end_time |-> Absent, logs |-> Absent]

\* request.get_json(): JSON null, a JSON array, or a JSON object
BodyNull == [k |-> "null"]
BodyInvalid == [k |-> "invalid"]    \* no JSON: get_json() raises BadRequest
BodyList(n, hasLogs) == [k |-> "list", hasLogs |-> hasLogs, len |-> n]
BodyObj(f) == [k |-> "obj", f |-> f]

\* Python truthiness of the parsed body
BodyTruthy(data) ==
    CASE data.k = "null" -> FALSE
      [] data.k = "list" -> data.len > 0
      [] OTHER -> \E x \in Keys : data.f[x].k # "absent"

Min(a, b) == IF a <= b THEN a ELSE b

----------------------------------------------------------------------------
(* Timestamps *)

\* A datetime: wall-clock minutes, and whether it carries a UTC offset.
DT(t, aware) == [t |-> t, aware |-> aware]

\* datetime.utcnow(): a naive datetime
UtcNow(now) == DT(now, FALSE)

\* A variant of ReplaceZ with a slip: 'Z' is removed instead of replaced.
ReplaceZStrip(z) == IF z = "Z" THEN "" ELSE z

\* .replace('Z', '+00:00') on the zone designator of a timestamp string
ReplaceZ(z) == IF z = "Z" THEN "+00:00" ELSE z

\* datetime.fromisoformat(v.replace('Z', '+00:00')) for one request value:
\* "attr" when v has no .replace (not a string), "value" when the string does
\* not parse (ValueError), else the datetime: aware when the string parsed
\* carries an offset, naive when it carries none.
ParseIso(v) ==
    CASE v.k = "iso" -> [t |-> "ok", dt |-> DT(v.t, ReplaceZ(v.z) # "")]
      [] v.k = "str" -> [t |-> "value"]
      [] OTHER -> [t |-> "attr"]

\* dt.isoformat(): the wall-clock time followed by the offset of an aware
\* datetime; tz lists the zone designators the string ends with.
IsoFormat(dt) == [t |-> dt.t, tz |-> IF dt.aware THEN <<"+00:00">> ELSE <<>>]

\* str + 'Z'
PlusZ(str) == [t |-> str.t, tz |-> Append(str.tz, "Z")]

\* A variant of timerange_map with a slip: '7d' as timedelta(hours=7).
timerange_map_hours ==
    ("1h" :> 60) @@ ("30m" :> 30) @@ ("1d" :> 1440) @@ ("7d" :> 420) @@
    ("15m" :> 15) @@ ("4h" :> 240) @@ ("24h" :> 1440)

\* timerange_map of search_logs_with_timerange, in minutes
timerange_map ==
    ("1h" :> 60) @@ ("30m" :> 30) @@ ("1d" :> 1440) @@ ("7d" :> 10080) @@
    ("15m" :> 15) @@ ("4h" :> 240) @@ ("24h" :> 1440)

\* timerange in timerange_map, for a hashable timerange
InTimerangeMap(v) == v.k = "str" /\ v.s \in DOMAIN timerange_map

\* start_time = now - timerange_map[timerange]; end_time = now
RelativeWindow(now, token) ==
    [from |-> DT(now - timerange_map[token], FALSE), to |-> UtcNow(now)]

\* A variant of DefaultWindow with a slip: the five minutes subtracted.
DefaultWindowBackward(now) ==
    LET start_time == DT(now - 60, FALSE)
    IN  [from |-> start_time, to |-> DT(start_time.t - 5, FALSE)]

\* A variant of DefaultWindow with a slip: the window is the whole last hour.
DefaultWindowLastHour(now) ==
    [from |-> DT(now - 60, FALSE), to |-> UtcNow(now)]

\* start_time = now - timedelta(hours=1); end_time = start_time + timedelta(minutes=5)
DefaultWindow(now) ==
    LET start_time == DT(now - 60, FALSE)
    IN  [from |-> start_time, to |-> DT(start_time.t + 5, FALSE)]

----------------------------------------------------------------------------
(* Responses and handler results *)

Err(status, msg) == [status |-> status, error |-> msg]

\* The handler returned without calling the backend.
Done(resp) == [t |-> "resp", resp |-> resp, calls |-> <<>>]

\* The except Exception clause around the whole handler body.
Internal == Done(Err(500, "Internal server error"))

\* The handler reached dd_client.search_logs / dd_client.submit_log.
Call(op, args, echo) == [t |-> "call", calls |-> <<>>, op |-> op, args |-> args, echo |-> echo]

----------------------------------------------------------------------------
(* QueryBuilder *)

\* A variant of BuildQuery with a slip: the extra query is appended without
\* the test for an empty one.
BuildQueryUnguarded(service, additional_query) ==
    <<"service:", service.s, " ",
      IF additional_query.k = "str" THEN additional_query.s ELSE "">>

\* query = f"service:{service}"; if additional_query: query += f" {additional_query}"
BuildQuery(service, additional_query) ==
    IF Truthy(additional_query)
    THEN <<"service:", service.s, " ", additional_query.s>>
    ELSE <<"service:", service.s>>

----------------------------------------------------------------------------
(* POST /logs/search/timerange, the same code in both files *)

search_logs_with_timerange(data, now) ==
    IF data.k = "invalid" THEN Internal       \* request.get_json() raises
    ELSE IF ~BodyTruthy(data) THEN Done(Err(400, "JSON payload required"))
    ELSE IF data.k # "obj" THEN Internal      \* data.get on a list
    ELSE LET service == Get(data, "service")
             timerange == Get(data, "timerange")
         IN  IF ~(Truthy(service) /\ Truthy(timerange))
             THEN Done(Err(400, "Missing required parameters: service, timerange"))
             ELSE IF ~Hashable(timerange) THEN Internal   \* TypeError: unhashable
             ELSE IF ~InTimerangeMap(timerange)
             THEN Done(Err(400, "Invalid timerange"))
             ELSE LET start_time == RelativeWindow(now, timerange.s).from
                      end_time == RelativeWindow(now, timerange.s).to
                      limit == GetOr(data, "limit", N(50))
                      additional_query == GetOr(data, "query", S(""))
                      query == BuildQuery(service, additional_query)
                  IN  Call("search",
                           [limit |-> limit, query |-> query,
                            from |-> start_time, to |-> end_time,
                            start |-> IsoFormat(start_time), end |-> IsoFormat(end_time)],
                           [timerange |-> timerange, shape |-> "relative"])

----------------------------------------------------------------------------
(* POST /logs/search of logs_querier.py: service, start_time, end_time *)

InvalidTimestamp == Done(Err(400, "Invalid timestamp format"))

search_logs_querier(data) ==
    IF data.k = "invalid" THEN Internal       \* request.get_json() raises
    ELSE IF ~BodyTruthy(data) THEN Done(Err(400, "JSON payload required"))
    ELSE IF data.k # "obj" THEN Internal      \* data.get on a list
    ELSE LET service == Get(data, "service")
             start_time == Get(data, "start_time")
             end_time == Get(data, "end_time")
         IN  IF ~(Truthy(service) /\ Truthy(start_time) /\ Truthy(end_time))
             THEN Done(Err(400, "Missing required parameters: service, start_time, end_time"))
             ELSE LET limit == GetOr(data, "limit", N(50))
                      additional_query == GetOr(data, "query", S(""))
                      query == BuildQuery(service, additional_query)
                      ps == ParseIso(start_time)
                      pe == ParseIso(end_time)
                  IN  IF ps.t = "attr" THEN Internal       \* AttributeError
                      ELSE IF ps.t = "value" THEN InvalidTimestamp
                      ELSE IF pe.t = "attr" THEN Internal
                      ELSE IF pe.t = "value" THEN InvalidTimestamp
                      ELSE Call("search",
                                [limit |-> limit, query |-> query,
                                 from |-> ps.dt, to |-> pe.dt,
                                 start |-> IsoFormat(ps.dt), end |-> IsoFormat(pe.dt)],
                                [shape |-> "absolute"])

----------------------------------------------------------------------------
(* POST /logs/search of opsight.py: query, optional start_time and end_time *)

\* A variant of TimeRangeMissing with a slip: the default window is used only
\* when both keys are missing.
TimeRangeMissingBoth(data) ==
    ~Has(data, "start_time") /\ ~Has(data, "end_time")

\* 'start_time' not in data or 'end_time' not in data
TimeRangeMissing(data) ==
    ~Has(data, "start_time") \/ ~Has(data, "end_time")

search_logs_opsight(body, now) ==
    IF body.k = "invalid" THEN Internal       \* request.get_json() raises
    ELSE IF BodyTruthy(body) /\ body.k # "obj" THEN Internal   \* data.get on a list
    ELSE LET data == IF BodyTruthy(body) THEN body ELSE BodyObj(EmptyFields)
             query == GetOr(data, "query", S("datadog-agent"))
             limit == GetOr(data, "limit", N(5))
         IN  IF TimeRangeMissing(data)
             THEN LET start_time == DefaultWindow(now).from
                      end_time == DefaultWindow(now).to
                  IN  Call("search",
                           [limit |-> limit, query |-> query,
                            from |-> start_time, to |-> end_time,
                            start |-> PlusZ(IsoFormat(start_time)),
                            end |-> PlusZ(IsoFormat(end_time))],
                           [shape |-> "default"])
             ELSE LET ps == ParseIso(Get(data, "start_time"))
                      pe == ParseIso(Get(data, "end_time"))
                  IN  IF ps.t = "attr" THEN Internal       \* AttributeError
                      ELSE IF ps.t = "value" THEN InvalidTimestamp
                      ELSE IF pe.t = "attr" THEN Internal
                      ELSE IF pe.t = "value" THEN InvalidTimestamp
                      ELSE Call("search",
                                [limit |-> limit, query |-> query,
                                 from |-> ps.dt, to |-> pe.dt,
                                 start |-> PlusZ(IsoFormat(ps.dt)),
                                 end |-> PlusZ(IsoFormat(pe.dt))],
                                [shape |-> "absolute"])

----------------------------------------------------------------------------
(* POST /logs/submit of opsight.py *)

\* A service name is the list of its dot-separated segments.
Name(segs) == [k |-> "name", segs |-> segs]

\* A log entry that is a JSON object, and one that is not.
Entry(message, service, timestamp) ==
    [k |-> "dict", service |-> service, message |-> message, timestamp |-> timestamp]
Scalar == [k |-> "scalar"]

\* A "logs" value that is a JSON array.
LogList(items) == [k |-> "list", items |-> items]

\* A variant of Namespaced with a slip: 'opsight' itself is prefixed too.
NamespacedAlways(service) ==
    IF service.k = "absent" THEN Name(<<"opsight">>)
    ELSE Name(<<"opsight">> \o service.segs)

\* A variant of Namespaced with a slip: a service that already begins with
\* 'opsight.' is left alone.
NamespacedOnce(service) ==
    IF service.k = "absent" THEN Name(<<"opsight">>)
    ELSE IF service.segs[1] = "opsight" THEN service
    ELSE Name(<<"opsight">> \o service.segs)

\* if 'service' not in log: 'opsight'; elif != 'opsight': f"opsight.{service}"
Namespaced(service) ==
    IF service.k = "absent" THEN Name(<<"opsight">>)
    ELSE IF service = Name(<<"opsight">>) THEN service
    ELSE Name(<<"opsight">> \o service.segs)

\* A variant of ProcessLogs with a slip: the entries that passed are submitted
\* before the entry that fails is rejected.
RECURSIVE ProcessLogsEager(_, _, _)
ProcessLogsEager(logs, i, sent) ==
    LET posted == IF sent = <<>> THEN <<>>
                  ELSE <<[logs |-> sent, op |-> "submit", api |-> "intake"]>>
    IN  IF i > Len(logs) THEN Call("submit", [logs |-> sent], [count |-> Len(logs)])
        ELSE IF logs[i].k # "dict"
        THEN [t |-> "resp", resp |-> Err(400, "Each log entry must be a JSON object"),
              calls |-> posted]
        ELSE IF logs[i].message.k = "absent"
        THEN [t |-> "resp",
              resp |-> Err(400, "Each log entry must contain a 'message' field"),
              calls |-> posted]
        ELSE ProcessLogsEager(logs, i + 1,
                              Append(sent, [logs[i] EXCEPT !.service = Namespaced(@)]))

\* A variant of ProcessLogs with a slip: an entry without message is skipped
\* and the rest of the batch is submitted.
RECURSIVE ProcessLogsSkip(_, _, _)
ProcessLogsSkip(logs, i, sent) ==
    IF i > Len(logs) THEN Call("submit", [logs |-> sent], [count |-> Len(logs)])
    ELSE IF logs[i].k # "dict"
    THEN Done(Err(400, "Each log entry must be a JSON object"))
    ELSE IF logs[i].message.k = "absent"
    THEN ProcessLogsSkip(logs, i + 1, sent)
    ELSE ProcessLogsSkip(logs, i + 1,
                         Append(sent, [logs[i] EXCEPT !.service = Namespaced(@)]))

\* A variant of ProcessLogs with a slip: each processed entry is put in front
\* of the ones before it.
RECURSIVE ProcessLogsReversed(_, _, _)
ProcessLogsReversed(logs, i, sent) ==
    IF i > Len(logs) THEN Call("submit", [logs |-> sent], [count |-> Len(logs)])
    ELSE IF logs[i].k # "dict"
    THEN Done(Err(400, "Each log entry must be a JSON object"))
    ELSE IF logs[i].message.k = "absent"
    THEN Done(Err(400, "Each log entry must contain a 'message' field"))
    ELSE ProcessLogsReversed(logs, i + 1,
                             <<[logs[i] EXCEPT !.service = Namespaced(@)]>> \o sent)

\* The for loop over the entries, from entry i on; sent holds the
\* entries processed so far.
RECURSIVE ProcessLogs(_, _, _)
ProcessLogs(logs, i, sent) ==
    IF i > Len(logs) THEN Call("submit", [logs |-> sent], [count |-> Len(logs)])
    ELSE IF logs[i].k # "dict"
    THEN Done(Err(400, "Each log entry must be a JSON object"))
    ELSE IF logs[i].message.k = "absent"
    THEN Done(Err(400, "Each log entry must contain a 'message' field"))
    ELSE ProcessLogs(logs, i + 1,
                     Append(sent, [logs[i] EXCEPT !.service = Namespaced(@)]))

submit_logs(data) ==
    IF data.k = "invalid" THEN Internal       \* request.get_json() raises
    ELSE IF ~BodyTruthy(data) THEN Done(Err(400, "JSON payload with 'logs' array required"))
    ELSE IF data.k = "list"
    THEN IF ~data.hasLogs
         THEN Done(Err(400, "JSON payload with 'logs' array required"))
         ELSE Internal                        \* data['logs'] on a list
    ELSE IF ~Has(data, "logs")
    THEN Done(Err(400, "JSON payload with 'logs' array required"))
    ELSE LET v == data.f["logs"]
             logs == IF v.k = "list" THEN v.items ELSE <<v>>
         IN  ProcessLogs(logs, 1, <<>>)

----------------------------------------------------------------------------
(* GET /health *)

\* A variant of health_check with a slip: the service reports itself degraded
\* once a periodic submission has failed.
health_check_degraded(v) ==
    IF hfails > 0
    THEN Done([status |-> 503, body |-> [service |-> v, status |-> "degraded"]])
    ELSE Done([status |-> 200, body |-> [service |-> v, status |-> "healthy"]])

health_check(v) == Done([status |-> 200, body |-> [service |-> v, status |-> "healthy"]])

----------------------------------------------------------------------------
(* DatadogLogsClient *)

\* What the backend does with one requests.post: an HTTP response with a
\* status code and a body, or a transport failure (the 30 second timeout, no
\* connection).  The body is a JSON object, JSON of another type, or no JSON.
Statuses == {200, 201, 202, 404, 500}
StatusOutcome(c, b) == [t |-> "status", body |-> b, code |-> c]
TransportFailures == {[t |-> "timeout"], [t |-> "connection"]}

\* submit_log never parses the body of the response.
SubmitOutcomes == {StatusOutcome(c, "object") : c \in Statuses} \cup TransportFailures

\* search_logs parses it with response.json() and reads response_data.get('data').
SearchOutcomes ==
    {StatusOutcome(c, "object") : c \in {200, 404, 500}}
    \cup {StatusOutcome(200, b) : b \in {"array", "text"}}
    \cup TransportFailures

Outcomes == SubmitOutcomes \cup SearchOutcomes

\* response.raise_for_status() raises for 4xx and 5xx; a transport failure
\* raises inside requests.post.  Both are RequestException.
Raises(o) == o.t # "status" \/ (o.code >= 400 /\ o.code < 600)

\* search_logs raises also when response.json() does (no JSON) and when the
\* JSON has no .get (not an object); its caller catches every Exception.
SearchRaises(o) == Raises(o) \/ o.body # "object"

\* DD_API_KEY (required at module load) and DD_SITE of the environment
DD_API_KEY == S("api-key")
DD_SITE == "datadoghq.com"

\* DatadogLogsClient.__init__
DatadogLogsClient(api_key, app_key, site) ==
    [api_key |-> api_key, app_key |-> app_key, site |-> site,
     base_url |-> <<"https://api.", site>>]

\* headers of search_logs: DD-APPLICATION-KEY only if self.app_key
SearchHeaders ==
    [content_type |-> S("application/json"), dd_api_key |-> client.api_key,
     dd_application_key |-> IF Truthy(client.app_key) THEN client.app_key ELSE Absent]

\* headers of submit_log
SubmitHeaders ==
    [content_type |-> S("application/json"), dd_api_key |-> client.api_key,
     dd_application_key |-> Absent]

\* DatadogLogsClient.search_logs up to requests.post: the payload posted, or
\* the TypeError of min(limit, 1000) for a limit that is no number.
ClientSearchOpsight(args) ==
    IF args.limit.k # "int" THEN [t |-> "raise"]
    ELSE [t |-> "post",
          req |-> [limit |-> N(Min(args.limit.n, 1000)), query |-> args.query,
                   from |-> args.start, to |-> args.end, op |-> "search", api |-> "v2",
                   sort |-> "-timestamp",
                   url |-> client.base_url \o <<"/api/v2/logs/events/search">>,
                   headers |-> SearchHeaders]]

ClientSearchQuerier(args) ==
    [t |-> "post",
     req |-> [limit |-> args.limit, query |-> args.query, from |-> args.start,
              to |-> args.end, op |-> "search", api |-> "v1",
              sort |-> "timestamp",
              url |-> client.base_url \o <<"/api/v1/logs-queries/list">>,
              headers |-> SearchHeaders]]

ClientSearch(v, args) ==
    IF v = "opsight" THEN ClientSearchOpsight(args) ELSE ClientSearchQuerier(args)

\* datetime.utcnow().isoformat() + 'Z'
StampNow(now) == PlusZ(IsoFormat(UtcNow(now)))

\* A variant of ClientSubmit with a slip: every entry is stamped, also one
\* that came with a timestamp.
ClientSubmitRestamps(log_data, now) ==
    LET logs == IF log_data.k = "list" THEN log_data.items ELSE <<log_data>>
        stamped == [i \in DOMAIN logs |-> [logs[i] EXCEPT !.timestamp = StampNow(now)]]
    IN  [t |-> "post",
         req |-> [logs |-> stamped, op |-> "submit", api |-> "intake",
                  url |-> <<"https://http-intake.logs.", client.site, "/api/v2/logs">>,
                  headers |-> SubmitHeaders]]

\* DatadogLogsClient.submit_log up to requests.post: log_data made a list,
\* every entry without a timestamp stamped.
ClientSubmit(log_data, now) ==
    LET logs == IF log_data.k = "list" THEN log_data.items ELSE <<log_data>>
        stamped == [i \in DOMAIN logs |->
                      IF logs[i].timestamp.k = "absent"
                      THEN [logs[i] EXCEPT !.timestamp = StampNow(now)]
                      ELSE logs[i]]
    IN  [t |-> "post",
         req |-> [logs |-> stamped, op |-> "submit", api |-> "intake",
                  url |-> <<"https://http-intake.logs.", client.site, "/api/v2/logs">>,
                  headers |-> SubmitHeaders]]

\* A variant of ClientAfter with a slip: submit_log keeps its intake host in
\* self.base_url.
ClientAfterRebased(c, req) ==
    IF req.op = "submit"
    THEN [c EXCEPT !.base_url = <<"https://http-intake.logs.", c.site>>]
    ELSE c

\* The client once search_logs or submit_log has posted req: neither method
\* assigns to self.
ClientAfter(c, req) == c

\* The client call a handler makes once its validation has passed.
ClientRequest(v, plan, now) ==
    IF plan.op = "search" THEN ClientSearch(v, plan.args)
    ELSE ClientSubmit(LogList(plan.args.logs), now)

\* A variant of CallsAfterReply with a slip: a failed call is posted once more.
CallsAfterReplyRetry(calls, o) ==
    IF Raises(o) THEN Append(calls, calls[Len(calls)]) ELSE calls

\* The calls on record after the backend answered: the except clauses of the
\* client and of the handlers log and raise / return, they post nothing.
CallsAfterReply(calls, o) == calls

----------------------------------------------------------------------------
(* The handlers after the client call *)

\* A variant of BackendFailed with a slip: the except clause returns the error
\* body without the status code, so Flask sends it with 200.
BackendFailedNoStatus(op) ==
    Err(200, IF op = "search" THEN "Failed to query Datadog"
             ELSE "Failed to submit logs to Datadog")

BackendFailed(op) ==
    Err(500, IF op = "search" THEN "Failed to query Datadog"
             ELSE "Failed to submit logs to Datadog")

\* A variant of SearchOk with a slip: start and end change places in time_range.
SearchOkSwapped(ep, plan, o) ==
    IF ep = "timerange"
    THEN [data |-> o, timerange |-> plan.echo.timerange, query |-> plan.args.query,
          status |-> 200,
          success |-> TRUE,
          time_range |-> [start |-> plan.args.end, end |-> plan.args.start]]
    ELSE [data |-> o, query |-> plan.args.query, status |-> 200,
          success |-> TRUE,
          time_range |-> [start |-> plan.args.end, end |-> plan.args.start]]

\* response_data of the three search handlers and of submit_logs
SearchOk(ep, plan, o) ==
    IF ep = "timerange"
    THEN [data |-> o, timerange |-> plan.echo.timerange, query |-> plan.args.query,
          status |-> 200,
          success |-> TRUE,
          time_range |-> [start |-> plan.args.start, end |-> plan.args.end]]
    ELSE [data |-> o, query |-> plan.args.query, status |-> 200,
          success |-> TRUE,
          time_range |-> [start |-> plan.args.start, end |-> plan.args.end]]

SubmitOk(plan) == [status |-> 200, count |-> Len(plan.args.logs), success |-> TRUE]

\* A variant of Finish with a slip: a handler gives up on the backend once a
\* periodic submission has failed.
FinishAfterHbFailure(ep, plan, o) ==
    IF hfails > 0 THEN BackendFailed(plan.op)
    ELSE IF plan.op = "search"
    THEN IF SearchRaises(o) THEN BackendFailed(plan.op) ELSE SearchOk(ep, plan, o)
    ELSE IF Raises(o) THEN BackendFailed(plan.op) ELSE SubmitOk(plan)

\* The response once the client call returned or raised.
Finish(ep, plan, o) ==
    IF plan.op = "search"
    THEN IF SearchRaises(o) THEN BackendFailed(plan.op) ELSE SearchOk(ep, plan, o)
    ELSE IF Raises(o) THEN BackendFailed(plan.op) ELSE SubmitOk(plan)

----------------------------------------------------------------------------
(* The periodic logger *)

\* status_log of periodic_logger
status_log == Entry(S("Opsight periodic status check"), Name(<<"opsight">>), Absent)

\* A variant of HbAfterSubmit with a slip: no except clause around the call,
\* so a failed submission ends the thread.
HbAfterSubmitDies(o) == IF Raises(o) THEN "dead" ELSE "local"

\* Where the loop goes once dd_client.submit_log returned or raised: the
\* except Exception clause around the call logs the failure and falls through
\* to the local log write.
HbAfterSubmit(o) == "local"

\* submit_log calls the except clause of a tick adds: none.
HbRetries(o) == 0

\* A variant of HbAfterUnexpected with a slip: the outer except clause has no
\* time.sleep, so the loop starts over at once.
HbAfterUnexpectedNoSleep == "tick"

\* Where the loop goes from the outer except Exception clause: it logs
\* "Error in periodic logger" and calls time.sleep(LOG_INTERVAL_SECONDS).
HbAfterUnexpected == "sleep"

----------------------------------------------------------------------------
(* Request inputs explored *)

Services == {Absent, S(""), S("web")}
Timeranges ==
    {Absent, S(""), S("9x"), N(5), NonEmptyList} \cup {S(x) : x \in DOMAIN timerange_map}
Limits == {Absent, N(0), N(5), N(1001), S("5")}
Queries == {Absent, Null, S(""), S("status:error")}
Times ==
    {Absent, N(1), S("yesterday")} \cup
    {Iso(t, z) : t \in {BaseNow, BaseNow + 60}, z \in {"", "Z", "+00:00"}}

NonObjectBodies ==
    {BodyNull, BodyInvalid, BodyList(0, FALSE), BodyList(1, FALSE), BodyList(1, TRUE)}

Obj(service, timerange, limit, query, start_time, end_time, logs) ==
    BodyObj([service |-> service, timerange |-> timerange, limit |-> limit,
             query |-> query, start_time |-> start_time, end_time |-> end_time,
             logs |-> logs])

\* Every field is explored over its whole set, the fields beside it held at
\* the values named here.
GoodTimes == {Iso(BaseNow, "Z"), Iso(BaseNow + 60, "+00:00")}

TimerangeBodies ==
    NonObjectBodies
    \cup {Obj(s, tr, Absent, Absent, Absent, Absent, Absent) :
            s \in Services, tr \in Timeranges}
    \cup {Obj(S("web"), S("1h"), l, Absent, Absent, Absent, Absent) : l \in Limits}
    \cup {Obj(S("web"), tr, Absent, q, Absent, Absent, Absent) :
            tr \in {S("1h"), S("7d"), S("9x")}, q \in Queries}

OpsightSearchBodies ==
    NonObjectBodies
    \cup {Obj(Absent, Absent, Absent, Absent, st, en, Absent) :
            st \in Times, en \in Times}
    \cup {Obj(Absent, Absent, l, Absent, t, t, Absent) :
            l \in Limits, t \in {Absent, Iso(BaseNow, "Z")}}
    \cup {Obj(Absent, Absent, Absent, q, t, t, Absent) :
            q \in Queries, t \in {Absent, Iso(BaseNow, "Z")}}
    \cup {Obj(Absent, Absent, l, Absent, st, en, Absent) :
            l \in {N(5), N(1001)}, st \in GoodTimes, en \in GoodTimes}

QuerierSearchBodies ==
    NonObjectBodies
    \cup {Obj(S("web"), Absent, Absent, Absent, st, en, Absent) :
            st \in Times, en \in Times}
    \cup {Obj(s, Absent, Absent, Absent, st, en, Absent) :
            s \in Services, st \in {Absent, Iso(BaseNow, "Z")},
            en \in {Absent, Iso(BaseNow + 60, "Z")}}
    \cup {Obj(S("web"), Absent, l, Absent, Iso(BaseNow, "Z"), Iso(BaseNow + 60, "Z"), Absent) :
            l \in Limits}
    \cup {Obj(S("web"), Absent, Absent, q, st, en, Absent) :
            q \in Queries, st \in GoodTimes, en \in GoodTimes}

LogEntries ==
    {Entry(S("m"), Absent, Absent),
     Entry(S("m"), Name(<<"foo">>), Iso(BaseNow, "Z")),
     Entry(S("m"), Name(<<"opsight">>), Absent),
     Entry(S("m"), Name(<<"opsight", "x">>), Iso(BaseNow, "Z")),
     Entry(Absent, Name(<<"foo">>), Absent),
     Scalar}

RECURSIVE SeqsUpTo(_, _)
SeqsUpTo(set, n) ==
    IF n = 0 THEN {<<>>}
    ELSE LET shorter == SeqsUpTo(set, n - 1)
         IN  shorter \cup {Append(q, x) : q \in shorter, x \in set}

SubmitBodies ==
    NonObjectBodies \cup
    {Obj(Absent, Absent, Absent, Absent, Absent, Absent, v) :
        v \in {Absent} \cup LogEntries \cup {LogList(q) : q \in SeqsUpTo(LogEntries, MaxBatch)}}

----------------------------------------------------------------------------
(* Actions *)

NoResp == [status |-> 0]
NoOut == [t |-> "none"]
NoPlan == [t |-> "none"]
NoCall == [op |-> "none"]

\* The deployments explored: DD_APP_KEY unset or set, the file imported by a
\* server or run as __main__.
Environments == {<<Null, "wsgi">>, <<S("app-key"), "main">>}

\* The utcnow() reading the periodic logger's submission stamps its record with.
HbNow == BaseNow + 3

Init ==
    /\ variant \in {"opsight", "logs_querier"}
    /\ hbEnabled \in BOOLEAN
    /\ \E e \in Environments : ddAppKey = e[1] /\ launch = e[2]
    /\ client = DatadogLogsClient(DD_API_KEY, ddAppKey, DD_SITE)
    /\ rpc = "idle" /\ rep = "none" /\ rbody = BodyNull /\ rnow = 0
    /\ rplan = NoPlan /\ rcalls = <<>> /\ rout = NoOut /\ rresp = NoResp
    /\ rhbFails = 0
    /\ hpc = "boot" /\ hticks = 0 /\ hsubmits = 0 /\ hfails = 0 /\ hlocal = 0
    /\ hcall = NoCall
    /\ hthreads = 0

\* Where the periodic logger of the serving process stands once the module
\* is loaded.
Loaded == IF hbEnabled THEN "tick" ELSE "off"

\* Module load: if ENABLE_PERIODIC_LOGGING: periodic_thread.start().  Run as
\* __main__ the process goes on to app.run; imported, it serves at once.
Startup ==
    /\ hpc = "boot"
    /\ hpc' = IF launch = "main" THEN "run" ELSE Loaded
    /\ hthreads' = IF hbEnabled THEN hthreads + 1 ELSE hthreads
    /\ UNCHANGED <<hticks, hsubmits, hfails, hlocal, hcall>>
    /\ UNCHANGED rvars /\ UNCHANGED cvars /\ UNCHANGED client

\* app.run(host='0.0.0.0', port=5000, debug=True): debug=True turns the
\* reloader on, which keeps the launching process (and its daemon threads)
\* alive and serves from a child process that loads the module again.
\* hpc, hticks, hsubmits, hfails and hlocal follow the logger of the process
\* that serves the requests.
RunMain ==
    /\ hpc = "run"
    /\ hpc' = Loaded
    /\ hthreads' = IF hbEnabled THEN hthreads + 1 ELSE hthreads
    /\ UNCHANGED <<hticks, hsubmits, hfails, hlocal, hcall>>
    /\ UNCHANGED rvars /\ UNCHANGED cvars /\ UNCHANGED client

\* Whether the handler, or the client call it makes, reads datetime.utcnow():
\* the relative and the default window do, and so does submit_log for an
\* entry without timestamp.
ReadsClock(plan) ==
    IF plan.op = "search" THEN plan.echo.shape # "absolute"
    ELSE \E i \in DOMAIN plan.args.logs : plan.args.logs[i].timestamp.k = "absent"

\* A handler runs from the arrival of a request to its return or to the
\* requests.post of its client call.
Receive(ep, body, now, plan) ==
    /\ hpc \notin {"boot", "run"}
    /\ rpc = "idle"
    /\ rep' = ep /\ rbody' = body /\ rplan' = plan /\ rout' = NoOut
    /\ rhbFails' = IF ep = "health" THEN hfails ELSE 0
    /\ IF plan.t = "resp"
       THEN /\ rpc' = "done" /\ rresp' = plan.resp /\ rcalls' = plan.calls
            /\ rnow' = 0
            /\ UNCHANGED client
       ELSE LET creq == ClientRequest(variant, plan, now)
            IN  /\ rnow' = IF ReadsClock(plan) THEN now ELSE 0
                /\ IF creq.t = "raise"
                   THEN /\ rpc' = "done" /\ rresp' = BackendFailed(plan.op)
                        /\ rcalls' = plan.calls
                        /\ UNCHANGED client
                   ELSE /\ rpc' = "calling" /\ rresp' = NoResp
                        /\ rcalls' = Append(plan.calls, creq.req)
                        /\ client' = ClientAfter(client, creq.req)
    /\ UNCHANGED hvars /\ UNCHANGED cvars

ReceiveHealth == Receive("health", BodyNull, 0, health_check(variant))

ReceiveTimerange ==
    \E body \in TimerangeBodies, now \in Nows :
        Receive("timerange", body, now, search_logs_with_timerange(body, now))

ReceiveSearchOpsight ==
    /\ variant = "opsight"
    /\ \E body \in OpsightSearchBodies, now \in Nows :
        Receive("search", body, now, search_logs_opsight(body, now))

ReceiveSearchQuerier ==
    /\ variant = "logs_querier"
    /\ \E body \in QuerierSearchBodies :
        Receive("search", body, 0, search_logs_querier(body))

ReceiveSubmit ==
    /\ variant = "opsight"
    /\ \E body \in SubmitBodies, now \in Nows :
        Receive("submit", body, now, submit_logs(body))

\* The backend answers the handler's call, or the call fails; the handler returns.
Reply ==
    /\ rpc = "calling"
    /\ \E o \in (IF rplan.op = "search" THEN SearchOutcomes ELSE SubmitOutcomes) :
        /\ rout' = o
        /\ rresp' = Finish(rep, rplan, o)
        /\ rcalls' = CallsAfterReply(rcalls, o)
    /\ rpc' = "done"
    /\ UNCHANGED <<rep, rbody, rnow, rplan, rhbFails>>
    /\ UNCHANGED hvars /\ UNCHANGED cvars /\ UNCHANGED client

\* The response has been sent; the worker takes the next request.
Return ==
    /\ rpc = "done"
    /\ rpc' = "idle" /\ rep' = "none" /\ rbody' = BodyNull /\ rnow' = 0
    /\ rplan' = NoPlan /\ rcalls' = <<>> /\ rout' = NoOut /\ rresp' = NoResp
    /\ rhbFails' = 0
    /\ UNCHANGED hvars /\ UNCHANGED cvars /\ UNCHANGED client

\* opsight.py: the tick builds status_log and calls dd_client.submit_log.
HbSubmit ==
    /\ variant = "opsight" /\ hpc = "tick" /\ hticks < MaxTicks
    /\ hsubmits' = hsubmits + 1
    /\ hpc' = "submitting"
    /\ hcall' = ClientSubmit(status_log, HbNow).req
    /\ client' = ClientAfter(client, hcall')
    /\ UNCHANGED <<hticks, hfails, hlocal, hthreads>>
    /\ UNCHANGED rvars /\ UNCHANGED cvars

\* opsight.py: submit_log returns or raises.
HbSubmitReturn ==
    /\ hpc = "submitting"
    /\ \E o \in SubmitOutcomes :
        /\ hfails' = IF Raises(o) THEN hfails + 1 ELSE hfails
        /\ hsubmits' = hsubmits + HbRetries(o)
        /\ hpc' = HbAfterSubmit(o)
    /\ hcall' = NoCall
    /\ UNCHANGED <<hticks, hlocal, hthreads>>
    /\ UNCHANGED rvars /\ UNCHANGED cvars /\ UNCHANGED client

\* logger.info("Periodic status check"): after the submission in opsight.py,
\* first thing in the tick in logs_querier.py.
HbLocalLog ==
    /\ \/ hpc = "local"
       \/ variant = "logs_querier" /\ hpc = "tick" /\ hticks < MaxTicks
    /\ hlocal' = hlocal + 1
    /\ hpc' = "sleep"
    /\ UNCHANGED <<hticks, hsubmits, hfails, hcall, hthreads>>
    /\ UNCHANGED rvars /\ UNCHANGED cvars /\ UNCHANGED client

\* An exception reaches the outer except clause of the tick: raised after the
\* submission (by a print in the inner try and except clauses, or by the local
\* logger.info) in opsight.py, by logger.info in logs_querier.py.  The local
\* log of the tick is not written.  The first such error of a run is explored.
HbUnexpected ==
    /\ hlocal = hticks
    /\ \/ hpc = "local"
       \/ variant = "logs_querier" /\ hpc = "tick" /\ hticks < MaxTicks
    /\ hpc' = HbAfterUnexpected
    /\ UNCHANGED <<hticks, hsubmits, hfails, hlocal, hcall, hthreads>>
    /\ UNCHANGED rvars /\ UNCHANGED cvars /\ UNCHANGED client

\* time.sleep(LOG_INTERVAL_SECONDS) returns; the loop starts over.
HbWake ==
    /\ hpc = "sleep"
    /\ hticks' = hticks + 1
    /\ hpc' = "tick"
    /\ UNCHANGED <<hsubmits, hfails, hlocal, hcall, hthreads>>
    /\ UNCHANGED rvars /\ UNCHANGED cvars /\ UNCHANGED client

Next ==
    \/ Startup
    \/ RunMain
    \/ ReceiveHealth
    \/ ReceiveTimerange
    \/ ReceiveSearchOpsight
    \/ ReceiveSearchQuerier
    \/ ReceiveSubmit
    \/ Reply
    \/ Return
    \/ HbSubmit
    \/ HbSubmitReturn
    \/ HbLocalLog
    \/ HbUnexpected
    \/ HbWake

Spec == Init /\ [][Next]_vars

----------------------------------------------------------------------------
(* Properties *)

\* The relative tokens of the specification and their durations in minutes.
ValidTokens == {"15m", "30m", "1h", "4h", "24h", "1d", "7d"}

Duration(token) ==
    CASE token = "15m" -> 15
      [] token = "30m" -> 30
      [] token = "1h" -> 60
      [] token = "4h" -> 4 * 60
      [] token = "24h" -> 24 * 60
      [] token = "1d" -> 24 * 60
      [] token = "7d" -> 7 * 24 * 60

\* The entries of the "logs" value of the request being handled.
RequestLogs ==
    IF rbody.f["logs"].k = "list" THEN rbody.f["logs"].items ELSE <<rbody.f["logs"]>>

\* C1: a request answered with HTTP 400 made no backend call: every
\* validation is done before the first requests.post.
C1_NoBackendCallBefore400 ==
    (rpc = "done" /\ rresp.status = 400) => rcalls = <<>>

\* A batch whose first entry is valid and whose second lacks message was
\* answered 400.
C1_Witness ==
    /\ rpc = "done" /\ rep = "submit" /\ rresp.status = 400
    /\ rbody.k = "obj" /\ rbody.f["logs"].k = "list"
    /\ Len(RequestLogs) = 2
    /\ RequestLogs[1].k = "dict" /\ RequestLogs[1].message.k # "absent"
    /\ RequestLogs[2].k = "dict" /\ RequestLogs[2].message.k = "absent"

\* C2: /logs/search/timerange with a service and a timerange that is not one
\* of the seven tokens answers 400 "Invalid timerange" without a backend call.
C2_UnknownTokenIs400 ==
    ( /\ rpc = "done" /\ rep = "timerange" /\ rbody.k = "obj"
      /\ Truthy(rbody.f["service"])
      /\ Truthy(rbody.f["timerange"])
      /\ ~(rbody.f["timerange"].k = "str" /\ rbody.f["timerange"].s \in ValidTokens) )
    => (rresp.status = 400 /\ rresp.error = "Invalid timerange" /\ rcalls = <<>>)

\* C3: for a valid token the window handed to the client is exactly
\* duration(token) long and ends at the request's utcnow() reading, and so do
\* the strings posted.
C3_WindowIsDuration ==
    ( /\ rpc # "idle" /\ rep = "timerange" /\ rbody.k = "obj"
      /\ Truthy(rbody.f["service"])
      /\ rbody.f["timerange"].k = "str" /\ rbody.f["timerange"].s \in ValidTokens )
    => /\ rplan.t = "call"
       /\ rplan.args.to.t = rnow
       /\ rplan.args.to.t - rplan.args.from.t = Duration(rbody.f["timerange"].s)
       /\ rplan.args.end.t = rnow
       /\ rplan.args.end.t - rplan.args.start.t = Duration(rbody.f["timerange"].s)
       /\ \A i \in DOMAIN rcalls :
            rcalls[i].to.t - rcalls[i].from.t = Duration(rbody.f["timerange"].s)

\* A "7d" search was answered 200.
C3_Witness ==
    /\ rpc = "done" /\ rep = "timerange" /\ rresp.status = 200
    /\ rbody.f["timerange"] = S("7d")
    /\ rcalls # <<>>

\* C4: a /logs/submit batch with an entry that lacks message, at any
\* position, is answered 400 and nothing of it is posted.
C4_BatchRejectedWhole ==
    ( /\ rep = "submit" /\ rbody.k = "obj"
      /\ \E i \in DOMAIN RequestLogs :
            RequestLogs[i].k = "dict" /\ RequestLogs[i].message.k = "absent" )
    => (rpc = "done" /\ rresp.status = 400 /\ rcalls = <<>>)

\* A batch whose first entry is valid, with a service to namespace, and whose
\* second entry lacks message was rejected.
C4_Witness ==
    /\ rpc = "done" /\ rep = "submit" /\ rresp.status = 400 /\ rcalls = <<>>
    /\ rbody.k = "obj" /\ rbody.f["logs"].k = "list"
    /\ Len(RequestLogs) = 2
    /\ RequestLogs[1] = Entry(S("m"), Name(<<"foo">>), Iso(BaseNow, "Z"))
    /\ RequestLogs[2].k = "dict" /\ RequestLogs[2].message.k = "absent"

\* C5: every entry posted by /logs/submit carries service 'opsight' if the
\* entry had none, its own service if that was exactly 'opsight', and
\* 'opsight.<original>' otherwise.
C5_ServiceNamespaced ==
    (rep = "submit" /\ rcalls # <<>>)
    => \A c \in DOMAIN rcalls :
        /\ Len(rcalls[c].logs) = Len(RequestLogs)
        /\ \A i \in DOMAIN RequestLogs :
            rcalls[c].logs[i].service =
                CASE RequestLogs[i].service.k = "absent" -> Name(<<"opsight">>)
                  [] RequestLogs[i].service.segs = <<"opsight">> -> RequestLogs[i].service
                  [] OTHER -> Name(<<"opsight">> \o RequestLogs[i].service.segs)

\* A batch holding an entry of service 'opsight' and an entry of another
\* service was posted.
C5_Witness ==
    /\ rep = "submit" /\ rcalls # <<>>
    /\ \E i, j \in DOMAIN RequestLogs :
        /\ RequestLogs[i].service = Name(<<"opsight">>)
        /\ RequestLogs[j].service = Name(<<"foo">>)
        /\ rcalls[1].logs[i].service = Name(<<"opsight">>)
        /\ rcalls[1].logs[j].service = Name(<<"opsight", "foo">>)

\* C6: in opsight.py, while every periodic submission has failed, the loop is
\* alive, has made exactly one submit_log call per tick, and /health answers 200.
C6_FailingHeartbeatGoesOn ==
    ( /\ variant = "opsight" /\ hbEnabled /\ hpc \notin {"boot", "run"}
      /\ hfails = hsubmits - (IF hpc = "submitting" THEN 1 ELSE 0) )
    => /\ hpc \in {"tick", "submitting", "local", "sleep"}
       /\ hsubmits = hticks + (IF hpc = "tick" THEN 0 ELSE 1)
       /\ (rpc = "done" /\ rep = "health") =>
            (rresp.status = 200 /\ rresp.body.status = "healthy")

\* After two ticks whose submissions both failed, /health was served.
C6_Witness ==
    /\ variant = "opsight" /\ hpc = "tick"
    /\ hticks >= 2 /\ hsubmits = hticks /\ hfails = hsubmits
    /\ rpc = "done" /\ rep = "health" /\ rhbFails >= 2
    /\ rresp.status = 200

\* The requests the specification calls validation failures.
NotATimestamp(v) == v.k # "iso"

ValidationFailure ==
    \/ rbody.k = "list" /\ rbody.len > 0
    \/ /\ rbody.k = "obj" /\ rep = "timerange"
       /\ \/ ~Truthy(rbody.f["service"])
          \/ ~(rbody.f["timerange"].k = "str" /\ rbody.f["timerange"].s \in ValidTokens)
    \/ /\ rbody.k = "obj" /\ rep = "search" /\ variant = "opsight"
       /\ Has(rbody, "start_time") /\ Has(rbody, "end_time")
       /\ (NotATimestamp(rbody.f["start_time"]) \/ NotATimestamp(rbody.f["end_time"]))
    \/ /\ rbody.k = "obj" /\ rep = "search" /\ variant = "logs_querier"
       /\ \/ ~Truthy(rbody.f["service"])
          \/ NotATimestamp(rbody.f["start_time"])
          \/ NotATimestamp(rbody.f["end_time"])
    \/ /\ rbody.k = "obj" /\ rep = "submit"
       /\ \/ ~Has(rbody, "logs")
          \/ \E i \in DOMAIN RequestLogs :
                RequestLogs[i].k # "dict" \/ RequestLogs[i].message.k = "absent"

\* C7: every validation failure is answered 400 with an error body, never 500.
C7_ValidationFailureIs400 ==
    (rpc = "done" /\ rep # "health" /\ ValidationFailure)
    => (rresp.status = 400 /\ "error" \in DOMAIN rresp)

\* The backend answered 4xx/5xx, or the call timed out or never connected.
BackendRejected(o) ==
    \/ o.t \in {"timeout", "connection"}
    \/ o.t = "status" /\ o.code >= 400

\* C8: when the backend rejects the call or the transport fails, the handler
\* answers 500 with an error body and exactly one call was posted.
C8_FailureIs500NoRetry ==
    (rpc = "done" /\ BackendRejected(rout))
    => (rresp.status = 500 /\ "error" \in DOMAIN rresp /\ Len(rcalls) = 1)

\* A submission timed out.
C8_Witness ==
    /\ rpc = "done" /\ rep = "submit" /\ rout.t = "timeout"
    /\ rresp.status = 500 /\ Len(rcalls) = 1

\* C9 as stated: every range handed to search_logs has from < to.
C9_FromBeforeTo ==
    (rplan.t = "call" /\ rplan.op = "search")
    => rplan.args.start.t < rplan.args.end.t

\* C9 as amended: a range resolved from a relative token or by default has
\* from < to; a caller's start_time and end_time are handed on as parsed, in
\* whatever order they are.
C9_ResolvedFromBeforeTo ==
    (rplan.t = "call" /\ rplan.op = "search")
    => /\ rplan.echo.shape \in {"relative", "default"} =>
            rplan.args.start.t < rplan.args.end.t
       /\ rplan.echo.shape = "absolute" =>
            /\ rplan.args.start.t = rbody.f["start_time"].t
            /\ rplan.args.end.t = rbody.f["end_time"].t

\* A search with start_time after end_time was posted and answered 200.
C9_Witness ==
    /\ rpc = "done" /\ rep = "search" /\ rresp.status = 200
    /\ rplan.echo.shape = "absolute"
    /\ rcalls # <<>>
    /\ rcalls[1].from.t > rcalls[1].to.t

\* C10: every search posted carries a limit with 0 < limit <= 1000.
C10_LimitWithinCap ==
    \A i \in DOMAIN rcalls :
        rcalls[i].op = "search" =>
            (rcalls[i].limit.k = "int" /\ rcalls[i].limit.n > 0 /\ rcalls[i].limit.n <= 1000)

\* A /logs/search body of opsight.py that gives no time range: no JSON, an
\* empty object, or an object without start_time and end_time.
NoTimeRange ==
    \/ rbody.k = "null"
    \/ rbody.k = "obj" /\ ~Has(rbody, "start_time") /\ ~Has(rbody, "end_time")

\* C11: /logs/search of opsight.py without a time range searches the five
\* minutes that begin one hour before now; without query and limit it posts
\* 'datadog-agent' with limit 5, and it answers 200 when the backend does.
C11_DefaultWindowIsFiveMinutes ==
    (rpc # "idle" /\ rep = "search" /\ variant = "opsight" /\ NoTimeRange)
    => /\ rplan.t = "call" /\ rplan.echo.shape = "default"
       /\ rplan.args.from.t = rnow - 60
       /\ rplan.args.to.t = rplan.args.from.t + 5
       /\ rplan.args.start.t = rnow - 60
       /\ rplan.args.end.t = rplan.args.start.t + 5
       /\ (rbody.k = "null" \/ (~Has(rbody, "query") /\ ~Has(rbody, "limit")))
            => /\ Len(rcalls) = 1
               /\ rcalls[1].query = S("datadog-agent")
               /\ rcalls[1].limit = N(5)
               /\ rcalls[1].to.t - rcalls[1].from.t = 5
               /\ (rpc = "done" /\ rout = StatusOutcome(200, "object"))
                    => /\ rresp.status = 200 /\ rresp.success
                       /\ rresp.query = S("datadog-agent")
                       /\ rresp.time_range.end.t - rresp.time_range.start.t = 5

\* A /logs/search without any JSON was answered 200 for the window
\* [now - 60, now - 55].
C11_Witness ==
    /\ rpc = "done" /\ rep = "search" /\ variant = "opsight" /\ rbody.k = "null"
    /\ rresp.status = 200
    /\ rcalls[1].from.t = rnow - 60 /\ rcalls[1].to.t = rnow - 55

\* C12: a /logs/submit whose batch was posted answers 200 only when the
\* backend answered 200 or 202; for every other status code and for every
\* transport failure submit_log raises and the handler answers 500.
C12_SubmitOkOnly200Or202 ==
    (rpc = "done" /\ rep = "submit" /\ rout # NoOut)
    => IF rout.t = "status" /\ rout.code \in {200, 202}
       THEN rresp.status = 200
       ELSE rresp.status = 500

\* C13: the from and to strings of every search posted end with exactly one
\* zone designator, 'Z' or an offset: never none, never two.
C13_OneZoneDesignator ==
    \A i \in DOMAIN rcalls :
        rcalls[i].op = "search" =>
            (Len(rcalls[i].from.tz) = 1 /\ Len(rcalls[i].to.tz) = 1)

\* The same timestamp string written with the other UTC designator.
SwapZone(v) ==
    IF v.k # "iso" THEN v
    ELSE IF v.z = "Z" THEN Iso(v.t, "+00:00")
    ELSE IF v.z = "+00:00" THEN Iso(v.t, "Z")
    ELSE v

\* The request being handled, its start_time and end_time rewritten so.
SwappedBody ==
    BodyObj([rbody.f EXCEPT !.start_time = SwapZone(@), !.end_time = SwapZone(@)])

UtcDesignators == {"Z", "+00:00"}

\* C14: an absolute start/end pair written with 'Z' and the same pair written
\* with '+00:00' resolve to the same instants and to the same strings posted.
C14_ZoneSpellingIrrelevant ==
    ( /\ rpc # "idle" /\ rep = "search" /\ rbody.k = "obj"
      /\ rbody.f["start_time"].k = "iso" /\ rbody.f["start_time"].z \in UtcDesignators
      /\ rbody.f["end_time"].k = "iso" /\ rbody.f["end_time"].z \in UtcDesignators
      /\ (variant = "logs_querier" => Truthy(rbody.f["service"])) )
    => LET other == IF variant = "opsight"
                    THEN search_logs_opsight(SwappedBody, rnow)
                    ELSE search_logs_querier(SwappedBody)
       IN  /\ rplan.t = "call" /\ other.t = "call"
           /\ other.args.from = rplan.args.from /\ other.args.to = rplan.args.to
           /\ other.args.start = rplan.args.start /\ other.args.end = rplan.args.end
           /\ rplan.args.from.t = rbody.f["start_time"].t
           /\ rplan.args.to.t = rbody.f["end_time"].t
           /\ rplan.args.limit.k = "int" =>
                /\ rcalls # <<>>
                /\ ClientSearch(variant, other.args).req.from = rcalls[1].from
                /\ ClientSearch(variant, other.args).req.to = rcalls[1].to

\* A search from a 'Z' start_time to a '+00:00' end_time was answered 200.
C14_Witness ==
    /\ rpc = "done" /\ rep = "search" /\ rresp.status = 200 /\ rbody.k = "obj"
    /\ rbody.f["start_time"] = Iso(BaseNow, "Z")
    /\ rbody.f["end_time"] = Iso(BaseNow + 60, "+00:00")

\* C15: in both files every tick of the periodic logger first attempts a
\* backend submission, then writes the local log whether or not the attempt
\* failed, then sleeps.
C15_TickSubmitsLogsSleeps ==
    (hbEnabled /\ hpc \notin {"boot", "run"})
    => /\ hpc \in {"tick", "submitting", "local", "sleep"}
       /\ hsubmits = hticks + (IF hpc = "tick" THEN 0 ELSE 1)
       /\ hlocal = hticks + (IF hpc = "sleep" THEN 1 ELSE 0)

\* C16: once the service is up there is one periodic_logger thread if
\* periodic logging is enabled and none otherwise, and never more than one.
C16_OneHeartbeatThread ==
    /\ hthreads <= 1
    /\ hpc \notin {"boot", "run"} => hthreads = (IF hbEnabled THEN 1 ELSE 0)

\* The URL each method posts to, from the configuration alone.
SearchUrl ==
    IF variant = "opsight"
    THEN <<"https://api.", DD_SITE, "/api/v2/logs/events/search">>
    ELSE <<"https://api.", DD_SITE, "/api/v1/logs-queries/list">>

IntakeUrl == <<"https://http-intake.logs.", DD_SITE, "/api/v2/logs">>

\* C18: whatever calls the handlers and the periodic logger have made or have
\* in flight, dd_client holds the fields it was constructed with, and every
\* post carries the URL and API key of the configuration and the payload of
\* its own arguments.
C18_ClientKeepsNoCallState ==
    /\ client = [api_key |-> DD_API_KEY, app_key |-> ddAppKey, site |-> DD_SITE,
                 base_url |-> <<"https://api.", DD_SITE>>]
    /\ \A i \in DOMAIN rcalls :
        /\ rcalls[i].headers.dd_api_key = DD_API_KEY
        /\ rcalls[i].op = "search" =>
            /\ rcalls[i].url = SearchUrl
            /\ rcalls[i].query = rplan.args.query
            /\ rcalls[i].from = rplan.args.start /\ rcalls[i].to = rplan.args.end
        /\ rcalls[i].op = "submit" =>
            /\ rcalls[i].url = IntakeUrl
            /\ Len(rcalls[i].logs) = Len(rplan.args.logs)
            /\ \A j \in DOMAIN rcalls[i].logs :
                rcalls[i].logs[j].message = rplan.args.logs[j].message
    /\ hpc = "submitting" =>
        /\ hcall.url = IntakeUrl
        /\ hcall.headers.dd_api_key = DD_API_KEY
        /\ Len(hcall.logs) = 1
        /\ hcall.logs[1].message = S("Opsight periodic status check")
        /\ hcall.logs[1].service = Name(<<"opsight">>)

\* A handler's search is in flight while the second periodic submission is.
C18_Witness ==
    /\ hpc = "submitting" /\ hsubmits = 2
    /\ rpc = "calling" /\ rep = "search" /\ rcalls[1].url = SearchUrl

\* The response a finished request has, told from the request and from what
\* the backend did with its call, whatever the periodic logger has done.
ResponseFromRequestAlone ==
    rpc = "done" =>
        /\ rep = "health" =>
            rresp = [status |-> 200, body |-> [service |-> variant, status |-> "healthy"]]
        /\ (rep # "health" /\ rplan.t = "resp") =>
            (rresp = rplan.resp /\ rresp.status \in {400, 500} /\ rcalls = <<>>)
        /\ (rplan.t = "call" /\ rout = NoOut) => rresp.status = 500
        /\ (rplan.t = "call" /\ rout # NoOut) =>
            /\ BackendRejected(rout) => rresp.status = 500
            /\ (~BackendRejected(rout) /\ (rep = "submit" \/ rout.body = "object"))
                => (rresp.status = 200 /\ rresp.success)

\* C17: every response is the one the request and the backend's answer to it
\* determine, also while periodic submissions fail, and no step of the periodic
\* logger changes anything of the request being handled.
C17_HeartbeatContained ==
    /\ []ResponseFromRequestAlone
    /\ [][hvars' # hvars => rvars' = rvars]_vars

\* A submit was answered 200 after a periodic submission had failed and while
\* the next one was in flight.
C17_Witness ==
    /\ rpc = "done" /\ rep = "submit" /\ rresp.status = 200
    /\ hfails >= 1 /\ hpc = "submitting"

\* The keys a search endpoint requires, and those of them the request being
\* handled does not give (absent, null or empty).
RequiredKeys ==
    IF rep = "timerange" THEN {"service", "timerange"}
    ELSE {"service", "start_time", "end_time"}

MissingKeys == {x \in RequiredKeys : ~Truthy(rbody.f[x])}

\* The keys an error message names.
KeysNamed(error) ==
    CASE error = "Missing required parameters: service, timerange" ->
            {"service", "timerange"}
      [] error = "Missing required parameters: service, start_time, end_time" ->
            {"service", "start_time", "end_time"}
      [] OTHER -> {}

\* C19: a search request (a JSON object that is not empty) that lacks required
\* fields is answered 400 with a message that names exactly the keys the
\* request lacks.
C19_MessageNamesMissingKeys ==
    ( /\ rpc = "done" /\ rbody.k = "obj" /\ BodyTruthy(rbody)
      /\ rep = "timerange" \/ (rep = "search" /\ variant = "logs_querier")
      /\ MissingKeys # {} )
    => /\ rresp.status = 400
       /\ KeysNamed(rresp.error) = MissingKeys

\* C20: the searches by service post the filter 'service:<service>' when the
\* request's query is absent or empty, and 'service:<service>', one space and
\* the query as given otherwise.
C20_FilterString ==
    ( /\ rplan.t = "call" /\ rplan.op = "search"
      /\ rep = "timerange" \/ variant = "logs_querier"
      /\ rbody.f["query"].k \in {"absent", "str"} )
    => LET service == rbody.f["service"].s
           extra == rbody.f["query"]
           expected == IF extra.k = "absent" \/ extra.s = ""
                       THEN <<"service:", service>>
                       ELSE <<"service:", service, " ", extra.s>>
       IN  /\ rplan.args.query = expected
           /\ \A i \in DOMAIN rcalls : rcalls[i].query = expected

\* A search for service 'web' with the extra query 'status:error' was posted.
C20_Witness ==
    /\ rpc = "calling" /\ rep \in {"timerange", "search"} /\ variant = "logs_querier"
    /\ rbody.f["query"] = S("status:error")
    /\ rcalls[1].query = <<"service:", "web", " ", "status:error">>

\* C21: /logs/search of opsight.py posts the caller's query as given, and
\* 'datadog-agent' when the request has no query: no JSON, no query key, or a
\* query key that is null.
C21_RawQueryOrSentinel ==
    (rep = "search" /\ variant = "opsight" /\ rplan.t = "call")
    => LET given == IF rbody.k = "obj" THEN rbody.f["query"] ELSE Absent
           expected == IF given.k \in {"absent", "null"}
                       THEN S("datadog-agent") ELSE given
       IN  /\ rplan.args.query = expected
           /\ \A i \in DOMAIN rcalls : rcalls[i].query = expected

\* C22: a search answered 200 carries success, the filter and the two instants
\* that were posted, the backend's result as received, and on
\* /logs/search/timerange the caller's token; it carries nothing else.
C22_SuccessEnvelope ==
    (rpc = "done" /\ rep \in {"search", "timerange"} /\ rresp.status = 200)
    => /\ Len(rcalls) = 1
       /\ rresp.success = TRUE
       /\ rresp.query = rcalls[1].query
       /\ rresp.time_range = [start |-> rcalls[1].from, end |-> rcalls[1].to]
       /\ rresp.data = rout
       /\ rout.t = "status" /\ rout.code = 200 /\ rout.body = "object"
       /\ IF rep = "timerange"
          THEN /\ rresp.timerange = rbody.f["timerange"]
               /\ DOMAIN rresp =
                    {"status", "success", "query", "timerange", "time_range", "data"}
          ELSE DOMAIN rresp = {"status", "success", "query", "time_range", "data"}

\* A "4h" search was answered 200 with its window of 240 minutes.
C22_Witness ==
    /\ rpc = "done" /\ rep = "timerange" /\ rresp.status = 200
    /\ rbody.f["timerange"] = S("4h")
    /\ rresp.timerange = S("4h")
    /\ rresp.time_range.end.t - rresp.time_range.start.t = 240

\* A /logs/submit request whose logs value is an object with a message, or a
\* list of such objects.
ValidSubmit ==
    /\ rep = "submit" /\ rbody.k = "obj" /\ Has(rbody, "logs")
    /\ \A i \in DOMAIN RequestLogs :
        RequestLogs[i].k = "dict" /\ RequestLogs[i].message.k # "absent"

\* C23: a valid /logs/submit makes one submit_log call that carries every
\* entry of the batch in the order given, a single object as a list of one,
\* and answered 200 it reports the number of entries sent.
C23_OneCallWholeBatch ==
    (rpc # "idle" /\ ValidSubmit)
    => /\ Len(rcalls) = 1
       /\ rcalls[1].op = "submit"
       /\ Len(rcalls[1].logs) = Len(RequestLogs)
       /\ \A i \in DOMAIN RequestLogs :
            /\ rcalls[1].logs[i].message = RequestLogs[i].message
            /\ RequestLogs[i].timestamp.k # "absent" =>
                rcalls[1].logs[i].timestamp = RequestLogs[i].timestamp
       /\ (rpc = "done" /\ rresp.status = 200) =>
            (rresp.success /\ rresp.count = Len(rcalls[1].logs))

\* A batch of two different entries was answered 200.
C23_Witness ==
    /\ rpc = "done" /\ rep = "submit" /\ rresp.status = 200 /\ rbody.k = "obj"
    /\ rbody.f["logs"].k = "list" /\ rresp.count = 2
    /\ RequestLogs[1] = Entry(S("m"), Name(<<"foo">>), Iso(BaseNow, "Z"))
    /\ RequestLogs[2] = Entry(S("m"), Absent, Absent)

\* C24: every entry submit_log posts has a timestamp: the utcnow() reading of
\* the call, with 'Z', for an entry handed in without one, and the entry's own
\* for the others; message and service are posted as handed in.  So for the
\* handlers' calls and for the periodic logger's.
C24_StampsOnlyMissing ==
    /\ (rep = "submit" /\ rcalls # <<>>) =>
        /\ Len(rcalls[1].logs) = Len(rplan.args.logs)
        /\ \A i \in DOMAIN rcalls[1].logs :
            LET given == rplan.args.logs[i]
                posted == rcalls[1].logs[i]
            IN  /\ posted.timestamp # Absent
                /\ posted.message = given.message
                /\ posted.service = given.service
                /\ posted.timestamp =
                     IF given.timestamp.k = "absent"
                     THEN [t |-> rnow, tz |-> <<"Z">>]
                     ELSE given.timestamp
    /\ hpc = "submitting" =>
        /\ hcall.logs[1].timestamp = [t |-> HbNow, tz |-> <<"Z">>]
        /\ hcall.logs[1].message = status_log.message
        /\ hcall.logs[1].service = status_log.service

\* A batch of an entry with a timestamp and an entry without one was posted.
C24_Witness ==
    /\ rpc = "calling" /\ rep = "submit" /\ Len(rcalls[1].logs) = 2
    /\ rplan.args.logs[1].timestamp = Iso(BaseNow, "Z")
    /\ rcalls[1].logs[1].timestamp = Iso(BaseNow, "Z")
    /\ rplan.args.logs[2].timestamp = Absent
    /\ rcalls[1].logs[2].timestamp = [t |-> BaseNow + 7, tz |-> <<"Z">>]

\* What /health answers.
HealthAnswer ==
    (rpc = "done" /\ rep = "health")
    => /\ rresp = [status |-> 200, body |-> [service |-> variant, status |-> "healthy"]]
       /\ rcalls = <<>> /\ rout = NoOut

\* C25: GET /health answers 200 {status: healthy, service: <name>} whatever the
\* periodic logger and the backend have done, posts nothing, and changes
\* neither the client nor anything of the periodic logger.
C25_HealthAlwaysHealthy ==
    /\ []HealthAnswer
    /\ [][(rpc = "idle" /\ rep' = "health") => (client' = client /\ hvars' = hvars)]_vars

\* /health was answered while a periodic submission was in flight, after one
\* that failed and a tick that ended in the outer except clause.
C25_Witness ==
    /\ rpc = "done" /\ rep = "health" /\ rresp.status = 200
    /\ hpc = "submitting" /\ hfails >= 1 /\ hlocal < hticks

\* C26: every post, search or submission, by a handler or by the periodic
\* logger, carries DD-API-KEY, and carries DD-APPLICATION-KEY when DD_APP_KEY
\* is configured.
C26_BothCredentialsAttached ==
    LET Attached(call) ==
            /\ call.headers.dd_api_key = DD_API_KEY
            /\ Truthy(ddAppKey) => call.headers.dd_application_key = ddAppKey
    IN  /\ \A i \in DOMAIN rcalls : Attached(rcalls[i])
        /\ hpc = "submitting" => Attached(hcall)

\* Between two submission attempts of the periodic logger lies one completed
\* sleep: the attempts made are the sleeps completed, plus the attempt of the
\* tick under way.
SleepBetweenAttempts ==
    (hbEnabled /\ hpc \notin {"boot", "run"})
    => /\ hpc \in {"tick", "submitting", "local", "sleep"}
       /\ variant = "opsight" => hsubmits = hticks + (IF hpc = "tick" THEN 0 ELSE 1)
       /\ variant = "logs_querier" => hlocal <= hticks + (IF hpc = "sleep" THEN 1 ELSE 0)

\* C27: on every path through a tick (submission returned, submission raised,
\* an exception caught by the outer except clause) the periodic logger sleeps
\* once before the next tick: a tick begins only when time.sleep has returned,
\* and a submission is attempted only at the beginning of a tick.
C27_OneSleepPerTick ==
    /\ []SleepBetweenAttempts
    /\ [][(hpc' = "tick" /\ hpc \notin {"tick", "boot", "run"})
            => (hpc = "sleep" /\ hticks' = hticks + 1)]_vars
    /\ [][hsubmits' > hsubmits => (hpc = "tick" /\ hsubmits' = hsubmits + 1)]_vars
    /\ [][hfails' > hfails => hpc' \in {"local", "sleep"}]_vars

\* The third tick begins after a tick whose submission failed and a tick that
\* ended in the outer except clause.
C27_Witness ==
    /\ variant = "opsight" /\ hpc = "tick" /\ hticks = 2 /\ hsubmits = 2
    /\ hfails >= 1 /\ hlocal = 1

\* Exactly one of start_time and end_time is a key of the request's JSON object.
OneTimeKey ==
    /\ rbody.k = "obj"
    /\ Has(rbody, "start_time") # Has(rbody, "end_time")

\* C28: /logs/search of opsight.py given exactly one of start_time and end_time
\* ignores the value, whatever it is, and searches the default window (five
\* minutes beginning one hour before now); the caller's timestamps are parsed,
\* and can be rejected, only when both keys are present.
C28_LoneTimeKeyIgnored ==
    (rpc # "idle" /\ rep = "search" /\ variant = "opsight" /\ rbody.k = "obj")
    => /\ OneTimeKey
            => /\ rplan.t = "call" /\ rplan.echo.shape = "default"
               /\ rplan.args.from = DT(rnow - 60, FALSE)
               /\ rplan.args.to = DT(rnow - 55, FALSE)
               /\ rplan.args.start = PlusZ(IsoFormat(rplan.args.from))
               /\ rplan.args.end = PlusZ(IsoFormat(rplan.args.to))
       /\ (rplan.t = "resp" \/ rplan.echo.shape = "absolute")
            => (Has(rbody, "start_time") /\ Has(rbody, "end_time"))
       /\ (rplan.t = "call" /\ rplan.echo.shape = "absolute")
            => /\ rplan.args.from = ParseIso(Get(rbody, "start_time")).dt
               /\ rplan.args.to = ParseIso(Get(rbody, "end_time")).dt

\* A search that carried only an unparseable start_time was answered 200 for
\* the default window.
C28_Witness ==
    /\ rpc = "done" /\ rep = "search" /\ variant = "opsight" /\ OneTimeKey
    /\ Get(rbody, "start_time") = S("yesterday")
    /\ rresp.status = 200
    /\ Len(rcalls) = 1
    /\ rcalls[1].from.t = rnow - 60 /\ rcalls[1].to.t = rnow - 55

\* C29: the namespacing of /logs/submit is not idempotent: an entry whose
\* service is already 'opsight.x' is posted as 'opsight.opsight.x', the only
\* service posted unchanged is exactly 'opsight', posting a posted entry again
\* would change it unless it is 'opsight', and within one request an entry
\* gains at most one prefix.
C29_NamespacingNotIdempotent ==
    (rep = "submit" /\ rcalls # <<>>)
    => \A c \in DOMAIN rcalls : \A i \in DOMAIN RequestLogs :
        LET original == RequestLogs[i].service
            posted == rcalls[c].logs[i].service
        IN  /\ posted.segs[1] = "opsight"
            /\ original = Name(<<"opsight", "x">>)
                 => posted = Name(<<"opsight", "opsight", "x">>)
            /\ (posted = original) <=> (original = Name(<<"opsight">>))
            /\ (Namespaced(posted) = posted) <=> (posted = Name(<<"opsight">>))
            /\ original.k # "absent" => Len(posted.segs) <= Len(original.segs) + 1

\* A batch holding an entry of service 'opsight.x' and an entry of service
\* 'opsight' was posted and answered 200.
C29_Witness ==
    /\ rpc = "done" /\ rep = "submit" /\ Len(rcalls) = 1 /\ rresp.status = 200
    /\ \E i, j \in DOMAIN RequestLogs :
        /\ RequestLogs[i].service = Name(<<"opsight", "x">>)
        /\ rcalls[1].logs[i].service = Name(<<"opsight", "opsight", "x">>)
        /\ RequestLogs[j].service = Name(<<"opsight">>)
        /\ rcalls[1].logs[j].service = Name(<<"opsight">>)

\* What a handler has answered: one of the three status codes; 200 only after
\* exactly one backend call that the backend answered 2xx (no call at all on
\* /health); an error body exactly when the status is not 200, and never
\* together with success.
HandlerOutcome ==
    /\ rpc \in {"idle", "calling", "done"}
    /\ rpc # "done" => rresp = NoResp
    /\ rpc = "done" =>
        /\ rresp.status \in {200, 400, 500}
        /\ rresp.status = 200 =>
            IF rep = "health" THEN rcalls = <<>>
            ELSE /\ Len(rcalls) = 1
                 /\ rout.t = "status" /\ rout.code >= 200 /\ rout.code < 300
                 /\ rresp.success = TRUE
        /\ ("error" \in DOMAIN rresp) <=> (rresp.status # 200)
        /\ ~("success" \in DOMAIN rresp /\ "error" \in DOMAIN rresp)

====
